---- MODULE Spec2Model ----
(***************************************************************************)
(* Petition generation pipeline of utils/agents.py (AgentOrchestrator,     *)
(* PetitionAgent), with the agent_models table of utils/db_manager.py and  *)
(* the text-generation client of utils/aitogether_client.py as seen by the *)
(* pipeline.                                                               *)
(*                                                                         *)
(* Strings stand for Python str values.  A prompt template is a sequence   *)
(* of tokens, each a literal piece of text or a named placeholder; a       *)
(* rendered prompt is the sequence of the pieces after substitution.       *)
(***************************************************************************)
EXTENDS Naturals, Sequences, FiniteSets, TLC

\* ------------------------------------------------------------ bounds ----

\* Number of distinct non-empty texts the generation service can answer with.
MaxTexts == 2

TextNames == <<"t1", "t2", "t3", "t4">>

\* Number of add_agent_model calls made on a table that starts empty.
MaxAdds == 3

\* Number of generate_petition invocations made on one orchestrator.
MaxInvocations == 2

\* ------------------------------------------------------- Python values ---

\* Python None where a str is expected (a JSON null content), kept apart
\* from every str the model uses.
NoneValue == "<None>"

\* str(v) as str.format applies it to a substituted value.
Str(v) == IF v = NoneValue THEN "None" ELSE v

IsNonEmptyStr(v) == v # NoneValue /\ v # ""

\* A Python object json.dumps has no encoding for (a date, a set, bytes),
\* kept apart from every str the model uses.
ObjValue == "<object>"

\* json.dumps(context, ensure_ascii=False, indent=2) returns, rather than
\* raising TypeError: every value has a JSON encoding (None is null).
JsonSerializable(ctx) == \A k \in DOMAIN ctx : ctx[k] # ObjValue

\* The truth value Python gives an optional str argument.
Truthy(v) == v # NoneValue /\ v # ""

\* --------------------------------------------------------- templates ----

Lit(s) == [ph |-> FALSE, s |-> s]
Ph(k) == [ph |-> TRUE, s |-> k]

CaseFields ==
  <<"fatos", "cliente_nome", "cliente_cnpj", "referencia_processo",
    "autoridade", "cidade">>

GeneratorSpecialties ==
  <<"recurso_administrativo", "impugnacao_edital", "mandado_seguranca",
    "contrarrazoes_recurso">>

\* Order in which configurar_agentes_padrao inserts the reviewers.
ReviewTypes == <<"juridico", "formatacao", "linguagem", "gramatica">>

\* Variant that runs the reviewers in the order the setup inserts them.
ReviewerOrder_Setup == ReviewTypes

\* Order of the reviewer stages in generate_petition.
ReviewerOrder == <<"gramatica", "juridico", "linguagem", "formatacao">>

CaseTemplate(head) ==
  <<Lit(head), Ph("fatos"), Lit("Nome:"), Ph("cliente_nome"),
    Lit("CNPJ/CPF:"), Ph("cliente_cnpj"), Ph("referencia_processo"),
    Ph("autoridade"), Ph("cidade"), Lit("Redija.")>>

ReviewTemplate(head) ==
  <<Lit(head), Lit("TIPO DE PETICAO:"), Ph("tipo"),
    Lit("TEXTO DA PETICAO:"), Ph("texto"), Lit("Revise.")>>

\* The templates dictionary of GeneratorAgent._load_specialty_template.
GeneratorTemplates ==
  [recurso_administrativo |-> CaseTemplate("gerador recurso_administrativo"),
   impugnacao_edital |-> CaseTemplate("gerador impugnacao_edital"),
   mandado_seguranca |-> CaseTemplate("gerador mandado_seguranca"),
   contrarrazoes_recurso |-> CaseTemplate("gerador contrarrazoes_recurso"),
   gramatica |-> ReviewTemplate("gerador gramatica")]

\* The templates dictionary of ReviewerAgent._load_specialty_template.
ReviewerTemplates ==
  [juridico |-> ReviewTemplate("revisor juridico"),
   formatacao |-> ReviewTemplate("revisor formatacao"),
   linguagem |-> ReviewTemplate("revisor linguagem"),
   gramatica |-> ReviewTemplate("revisor gramatica")]

Placeholders(tpl) == {tpl[i].s : i \in {j \in 1..Len(tpl) : tpl[j].ph}}

MissingAt(tpl, ctx) ==
  {i \in 1..Len(tpl) : tpl[i].ph /\ tpl[i].s \notin DOMAIN ctx}

FirstOf(S) == CHOOSE i \in S : \A j \in S : i <= j

\* Variant that also refuses a context with a key the template has no
\* field for.
FormatPrompt_Strict(tpl, ctx) ==
  IF MissingAt(tpl, ctx) = {} /\ DOMAIN ctx \subseteq Placeholders(tpl)
  THEN [ok |-> TRUE,
        prompt |-> [i \in 1..Len(tpl) |->
                      IF tpl[i].ph THEN Str(ctx[tpl[i].s]) ELSE tpl[i].s],
        key |-> ""]
  ELSE [ok |-> FALSE, prompt |-> <<>>,
        key |-> IF MissingAt(tpl, ctx) = {} THEN ""
                ELSE tpl[FirstOf(MissingAt(tpl, ctx))].s]

\* Variant that renders a missing field as the empty text.
FormatPrompt_Lenient(tpl, ctx) ==
  [ok |-> TRUE,
   prompt |-> [i \in 1..Len(tpl) |->
                 IF ~tpl[i].ph THEN tpl[i].s
                 ELSE IF tpl[i].s \in DOMAIN ctx THEN Str(ctx[tpl[i].s])
                 ELSE ""],
   key |-> ""]

\* PetitionAgent._format_prompt: prompt_template.format(**context).  The
\* fields are substituted left to right; the first one that is no key of
\* the context raises KeyError, turned into ValueError naming that key.
FormatPrompt(tpl, ctx) ==
  IF MissingAt(tpl, ctx) = {}
  THEN [ok |-> TRUE,
        prompt |-> [i \in 1..Len(tpl) |->
                      IF tpl[i].ph THEN Str(ctx[tpl[i].s]) ELSE tpl[i].s],
        key |-> ""]
  ELSE [ok |-> FALSE, prompt |-> <<>>,
        key |-> tpl[FirstOf(MissingAt(tpl, ctx))].s]

\* ----------------------------------------------------------- catalog ----

DefaultModel == "meta-llama/Meta-Llama-3.1-8B-Instruct-Turbo"

\* Python None returned by a lookup that finds no row.
NoBinding == [id |-> 0]

Binding(name, description, model_id, type, specialty, tpl) ==
  [id |-> 0, name |-> name, description |-> description,
   model_id |-> model_id, type |-> type, specialty |-> specialty,
   prompt_template |-> tpl]

\* The rows configurar_agentes_padrao inserts, in its order.
DefaultGenerator(i) ==
  Binding("Gerador", "gera peticoes", DefaultModel, "generator",
          GeneratorSpecialties[i], GeneratorTemplates[GeneratorSpecialties[i]])

DefaultReviewer(i) ==
  Binding("Revisor", "revisa peticoes", DefaultModel, "reviewer",
          ReviewTypes[i], ReviewerTemplates[ReviewTypes[i]])

\* A reviewer row stored with a custom template that refers to a case field.
CustomJuridico ==
  Binding("Revisor sob medida", "revisa com os fatos", "custom/model",
          "reviewer", "juridico",
          <<Lit("revisor sob medida"), Ph("tipo"), Ph("fatos"), Ph("texto")>>)

\* Rows get their id from AUTOINCREMENT: the position of insertion.
Numbered(rows) == [i \in 1..Len(rows) |-> [rows[i] EXCEPT !.id = i]]

RECURSIVE Pick(_, _)
Pick(rows, keep) ==
  IF rows = <<>> THEN <<>>
  ELSE (IF keep[1] THEN <<rows[1]>> ELSE <<>>)
       \o Pick(Tail(rows), Tail(keep))

\* Variant of the lookup whose WHERE clause filters on the type alone.
GetAgentModelBySpecialty_TypeOnly(cat, agent_type, specialty) ==
  LET hits == {i \in 1..Len(cat) : cat[i].type = agent_type}
  IN IF hits = {} THEN NoBinding
     ELSE cat[CHOOSE i \in hits : \A j \in hits : i <= j]

\* Variant whose query ends in ORDER BY id DESC.
GetAgentModelBySpecialty_Last(cat, agent_type, specialty) ==
  LET hits == {i \in 1..Len(cat) :
                 cat[i].type = agent_type /\ cat[i].specialty = specialty}
  IN IF hits = {} THEN NoBinding
     ELSE cat[CHOOSE i \in hits : \A j \in hits : j <= i]

\* DatabaseManager.get_agent_model_by_specialty: the first row of the
\* table with this type and specialty, None when there is none.
GetAgentModelBySpecialty(cat, agent_type, specialty) ==
  LET hits == {i \in 1..Len(cat) :
                 cat[i].type = agent_type /\ cat[i].specialty = specialty}
  IN IF hits = {} THEN NoBinding ELSE cat[FirstOf(hits)]

\* DatabaseManager.get_agent_models: the rows in table order; a condition
\* is added to the query for each filter argument that is truthy.
GetAgentModels(cat, agent_type, specialty) ==
  SelectSeq(cat, LAMBDA r :
    /\ Truthy(agent_type) => r.type = agent_type
    /\ Truthy(specialty) => r.specialty = specialty)

\* The id AUTOINCREMENT gives the next row: one more than the largest id
\* the table has held (no statement deletes from agent_models).
NextRowId(cat) == IF cat = <<>> THEN 1 ELSE cat[Len(cat)].id + 1

\* A generator row stored with the empty string as its specialty, which
\* the NOT NULL column accepts.
BlankGenerator ==
  Binding("Gerador geral", "sem especialidade", DefaultModel, "generator",
          "", CaseTemplate("gerador geral"))

\* The argument tuples add_agent_model is called with.
AddInputs ==
  {DefaultGenerator(1), DefaultReviewer(1), CustomJuridico, BlankGenerator}

\* The arguments get_agent_model_by_specialty is called with.
FindTypes == {"generator", "reviewer"}

FindSpecialties == {"recurso_administrativo", "juridico", "gramatica", ""}

\* The arguments get_agent_models is called with, NoneValue when omitted.
TypeFilters == {NoneValue, "", "generator", "reviewer"}

SpecialtyFilters == {NoneValue, "", "juridico", "recurso_administrativo"}

\* The agent classes and the specialties an agent is constructed for
\* without a prompt_template argument.
AgentClasses == {"GeneratorAgent", "ReviewerAgent"}

AgentSpecialties ==
  {GeneratorSpecialties[i] : i \in 1..4} \cup {ReviewTypes[i] : i \in 1..4}
    \cup {"inexistente", ""}

\* GeneratorAgent._load_specialty_template and
\* ReviewerAgent._load_specialty_template: the entry of the class's templates
\* dictionary, ValueError when the specialty is no key of it.
LoadSpecialtyTemplate(class, specialty) ==
  LET templates == IF class = "GeneratorAgent"
                   THEN GeneratorTemplates ELSE ReviewerTemplates
  IN IF specialty \in DOMAIN templates
     THEN [ok |-> TRUE, template |-> templates[specialty]]
     ELSE [ok |-> FALSE, exc |-> "ValueError",
           text |-> <<"Especialidade nao suportada", specialty>>]

\* ---------------------------------------------------------- contexts ----

FullContext(tipo) ==
  [tipo |-> tipo, fatos |-> "F", cliente_nome |-> "N", cliente_cnpj |-> "J",
   referencia_processo |-> "P", autoridade |-> "A", cidade |-> "C"]

Without(ctx, keys) == [k \in DOMAIN ctx \ keys |-> ctx[k]]

Tipos == {"recurso_administrativo", "inexistente"}

Drops == {{}, {"cidade"}, {"tipo"}, {"fatos", "cidade"}}

Extras == {<<>>, [cliente_razao_social |-> "R"]}

\* The contexts a caller hands to generate_petition.
Contexts ==
  {Without(FullContext(t) @@ x, d) : t \in Tipos, d \in Drops, x \in Extras}

\* The catalogs generation starts from: the default rows that are present,
\* in insertion order, then the custom row when present.
GeneratorChoices ==
  {<<FALSE, FALSE, FALSE, FALSE>>, <<TRUE, FALSE, FALSE, FALSE>>,
   <<FALSE, TRUE, TRUE, TRUE>>, <<TRUE, TRUE, TRUE, TRUE>>}

Catalogs ==
  {Numbered(Pick([i \in 1..4 |-> DefaultGenerator(i)], g)
            \o Pick([i \in 1..4 |-> DefaultReviewer(i)], r)
            \o (IF c THEN <<CustomJuridico>> ELSE <<>>)) :
     g \in GeneratorChoices, r \in [1..4 -> BOOLEAN], c \in BOOLEAN}

\* What the chat completion carries as content when the request succeeds.
Texts == {TextNames[i] : i \in 1..MaxTexts}

Contents == Texts \cup {"", NoneValue}

\* Why AITogetherClient.generate_text raises.
FailureCauses == {"status", "transport", "no_choices", "empty_choices"}

\* What the POST of generate_text ends in: an exception of requests, a
\* status other than 200, a JSON body without choices, one with an empty
\* list of choices, or one whose first choice carries a message content.
HttpOutcomes ==
  {[kind |-> k] : k \in FailureCauses}
    \cup {[kind |-> "ok", content |-> c] : c \in Contents}

\* AITogetherClient.generate_text from the POST on: the normalised response
\* with the content of the first choice, or the exception it re-raises.
GenerateText(http) ==
  IF http.kind = "ok"
  THEN [ok |-> TRUE, response |-> [choices |-> <<[text |-> http.content]>>]]
  ELSE [ok |-> FALSE, cause |-> http.kind]

\* response.get("choices", [{}])[0].get("text", "") in PetitionAgent.generate.
ExtractText(response) ==
  LET choices == IF "choices" \in DOMAIN response
                 THEN response.choices ELSE << <<>> >>
  IN IF "text" \in DOMAIN choices[1] THEN choices[1].text ELSE ""

\* ------------------------------------------------------------- state ----

VARIABLES
  catalog,        \* rows of agent_models, in rowid order
  context,        \* the caller's context
  pc,             \* idle, stage, calling, completed, fatal
  stage,          \* 1 generator, 2..5 reviewers in ReviewerOrder, 6 final
  petition_type,  \* local of generate_petition
  results,        \* local of generate_petition
  original_text,  \* local of generate_petition
  current_text,   \* local of generate_petition
  inflight,       \* the generate_text call that has not returned yet
  lookups,        \* history: catalog lookups made, in order
  handed,         \* history: contexts handed to PetitionAgent.generate
  issued,         \* history: generate_text calls issued, in order
  trace,          \* history: entries written to agent_logger
  returned,       \* what generate_petition returned to its caller
  error,          \* what generate_petition raised to its caller
  saved,          \* result keys the test script wrote to files
  script_error,   \* the exception the test script caught
  responses,      \* history: what each generate_text call ended in
  op,             \* the last call made on the catalog or an agent class
  adds,           \* history: add_agent_model calls with the id returned
  earlier         \* history: the invocations of generate_petition that ended

vars ==
  <<catalog, context, pc, stage, petition_type, results, original_text,
    current_text, inflight, lookups, handed, issued, trace, returned, error,
    saved, script_error, responses, op, adds, earlier>>

\* What generate_petition and PetitionAgent.generate read and write.
pipelineVars ==
  <<context, pc, stage, petition_type, results, original_text, current_text,
    inflight, lookups, handed, issued, trace, returned, error, saved,
    script_error, responses, earlier>>

\* A local that has not been assigned yet.
Unset == "<unset>"

NoCall == [stage |-> 0]

NoResult == [some |-> FALSE]

NoError ==
  [kind |-> "none", exc |-> "", key |-> "", at |-> 0, origin |-> "",
   text |-> <<>>]

NoOp == [name |-> "none"]

\* Nothing has been called yet.
Idle ==
  /\ pc = "idle"
  /\ stage = 0
  /\ petition_type = Unset
  /\ results = <<>>
  /\ original_text = Unset
  /\ current_text = Unset
  /\ inflight = NoCall
  /\ lookups = <<>>
  /\ handed = <<>>
  /\ issued = <<>>
  /\ trace = <<>>
  /\ returned = NoResult
  /\ error = NoError
  /\ saved = <<>>
  /\ script_error = ""
  /\ responses = <<>>
  /\ op = NoOp
  /\ adds = <<>>
  /\ earlier = <<>>

Init ==
  /\ catalog \in Catalogs
  /\ context \in Contexts
  /\ Idle

\* ------------------------------------------------------------ agents ----

\* AgentOrchestrator._get_generator_model
GetGeneratorModel(t) == GetAgentModelBySpecialty(catalog, "generator", t)

\* AgentOrchestrator._get_reviewer_model
GetReviewerModel(review_type) ==
  GetAgentModelBySpecialty(catalog, "reviewer", review_type)

\* The optional prompt_template argument of the agent classes: a template,
\* or None (the default).
Given(tpl) == [some |-> TRUE, tpl |-> tpl]

NotGiven == [some |-> FALSE]

\* GeneratorAgent.__init__ and ReviewerAgent.__init__: the built-in template
\* is loaded only when the prompt_template argument is None; ok is FALSE
\* when loading it raised.  A row of agent_models always has a template
\* (the column is NOT NULL).
NewPetitionAgent(class, model_id, specialty, prompt_template) ==
  LET t == IF ~prompt_template.some
           THEN LoadSpecialtyTemplate(class, specialty)
           ELSE [ok |-> TRUE, template |-> prompt_template.tpl]
  IN [class |-> class, model_id |-> model_id, specialty |-> specialty,
      ok |-> t.ok, prompt_template |-> IF t.ok THEN t.template ELSE <<>>]

\* Variant that passes no template, so that the built-in one is loaded.
CreateGeneratorAgent_Builtin(m) ==
  NewPetitionAgent("GeneratorAgent", m.model_id, m.specialty, NotGiven)

\* AgentOrchestrator._create_generator_agent with GeneratorAgent.__init__
CreateGeneratorAgent(m) ==
  NewPetitionAgent("GeneratorAgent", m.model_id, m.specialty,
                   Given(m.prompt_template))

\* Variant that passes no template, so that the built-in one is loaded.
CreateReviewerAgent_Builtin(m) ==
  NewPetitionAgent("ReviewerAgent", m.model_id, m.specialty, NotGiven)

\* AgentOrchestrator._create_reviewer_agent with ReviewerAgent.__init__
CreateReviewerAgent(m) ==
  NewPetitionAgent("ReviewerAgent", m.model_id, m.specialty,
                   Given(m.prompt_template))

\* Variant with the result keys the test scripts read.
StageKey_Legacy(k) ==
  IF k = 1 THEN "original" ELSE IF k = 5 THEN "formatted" ELSE "reviewed"

\* The key of results a stage writes.
StageKey(k) == IF k = 1 THEN "original" ELSE ReviewerOrder[k - 1]

\* Variant in which every reviewer stage falls back on original_text.
TextBefore_Original(k) == original_text

\* The text a reviewer stage reads: original_text in the grammar stage,
\* current_text in the later ones.
TextBefore(k) == IF k = 2 THEN original_text ELSE current_text

\* Variant that extends the caller's context instead of building a new one.
ReviewContext_Merged(k) ==
  [tipo |-> petition_type, texto |-> TextBefore(k)] @@ context

\* The context a reviewer stage builds for its agent.
ReviewContext(k) == [tipo |-> petition_type, texto |-> TextBefore(k)]

Entry(event, k) == [event |-> event, at |-> k]

\* An exception leaves generate_petition: its locals are dropped and the
\* caller gets no value.
Raise(e) ==
  /\ pc' = "fatal"
  /\ error' = e
  /\ returned' = NoResult

\* The exceptions that leave generate_petition.  exc is the class of the
\* exception the caller gets, origin the class of the exception first raised,
\* text what the message is made of; at records the stage it was raised in.

\* _format_prompt: the KeyError of str.format is caught and a ValueError
\* with the missing key in its message is raised in its place.
IncompleteContext(key, k) ==
  [kind |-> "IncompleteContext", exc |-> "ValueError", key |-> key, at |-> k,
   origin |-> "KeyError",
   text |-> <<"Contexto incompleto para formatacao do prompt", key>>]

NoGeneratorForType(t) ==
  [kind |-> "NoGeneratorForType", exc |-> "ValueError", key |-> t, at |-> 1,
   origin |-> "ValueError",
   text |-> <<"Nenhum agente gerador encontrado para o tipo de peticao", t>>]

\* The exception class generate_text raises for each cause.
ClientException(cause) ==
  IF cause = "status" THEN "Exception"
  ELSE IF cause = "transport" THEN "RequestException"
  ELSE IF cause = "no_choices" THEN "KeyError"
  ELSE "IndexError"

GenerationFailure(cause, k) ==
  [kind |-> "GenerationFailure", exc |-> ClientException(cause),
   key |-> cause, at |-> k, origin |-> ClientException(cause),
   text |-> IF cause = "status" THEN <<"Erro ao gerar texto", "status_code">>
            ELSE IF cause = "no_choices" THEN <<"choices">>
            ELSE IF cause = "empty_choices"
            THEN <<"list index out of range">>
            ELSE <<"connection">>]

\* The ValueError of _load_specialty_template.
UnsupportedSpecialty(specialty, k) ==
  [kind |-> "UnsupportedSpecialty", exc |-> "ValueError", key |-> specialty,
   at |-> k, origin |-> "ValueError",
   text |-> <<"Especialidade nao suportada", specialty>>]

\* The TypeError of json.dumps in a statement that writes a trace entry.
TraceFailure(k) ==
  [kind |-> "TraceFailure", exc |-> "TypeError", key |-> "", at |-> k,
   origin |-> "TypeError", text |-> <<"is not JSON serializable">>]

\* The agent of a stage is constructed (which fails when its built-in
\* template cannot be loaded), then generate is entered.
\* PetitionAgent.generate up to the point where generate_text is entered:
\* the start entries (the last of them with json.dumps of the context),
\* _format_prompt, the prompt entry, the request.
AgentGenerate(agent, ctx, k) ==
  LET r == FormatPrompt(agent.prompt_template, ctx)
      call == [stage |-> k, model |-> agent.model_id, prompt |-> r.prompt,
               max_tokens |-> 2000, specialty |-> agent.specialty]
  IN IF ~agent.ok
     THEN /\ Raise(UnsupportedSpecialty(agent.specialty, k))
          /\ UNCHANGED <<handed, trace, issued, inflight>>
     ELSE
     /\ handed' = Append(handed, [stage |-> k, class |-> agent.class,
                                  template |-> agent.prompt_template,
                                  context |-> ctx])
     /\ IF ~JsonSerializable(ctx)
        THEN /\ trace' = Append(trace, Entry("agent", k))
             /\ UNCHANGED <<issued, inflight>>
             /\ Raise(TraceFailure(k))
        ELSE IF r.ok
        THEN /\ trace' = trace \o <<Entry("start", k), Entry("prompt", k)>>
             /\ issued' = Append(issued, call)
             /\ inflight' = call
             /\ pc' = "calling"
             /\ UNCHANGED <<error, returned>>
        ELSE /\ trace' = Append(trace, Entry("start", k))
             /\ UNCHANGED <<issued, inflight>>
             /\ Raise(IncompleteContext(r.key, k))

\* Variant that treats a missing reviewer row like a missing generator row.
SkipStage_Raise(k) ==
  /\ trace' = Append(trace, Entry("skip", k))
  /\ pc' = "fatal"
  /\ error' = [kind |-> "MissingReviewerBinding", exc |-> "ValueError",
               key |-> ReviewerOrder[k - 1], at |-> k]
  /\ returned' = NoResult
  /\ UNCHANGED <<current_text, stage, handed, issued, inflight>>

\* A reviewer stage whose lookup found no row: a warning, and the grammar
\* stage sets current_text to original_text.
SkipStage(k) ==
  /\ trace' = Append(trace, Entry("skip", k))
  /\ current_text' = TextBefore(k)
  /\ stage' = k + 1
  /\ UNCHANGED <<pc, handed, issued, inflight, error, returned>>

\* -------------------------------------------------- generate_petition ----

\* Variant that takes the petition type out of the caller's context.
ReadTipo_Pop ==
  /\ petition_type' =
       IF "tipo" \in DOMAIN context THEN context["tipo"] ELSE ""
  /\ context' = Without(context, {"tipo"})

\* petition_type = context.get("tipo", ""): the caller's dict is read and
\* left as it is.
ReadTipo ==
  /\ petition_type' =
       IF "tipo" \in DOMAIN context THEN context["tipo"] ELSE ""
  /\ UNCHANGED context

\* Variant that stores the built-in row when the lookup finds none.
Lookup_Provision(agent_type, specialty) ==
  /\ lookups' = Append(lookups, <<agent_type, specialty>>)
  /\ catalog' =
       IF GetAgentModelBySpecialty(catalog, agent_type, specialty) = NoBinding
          /\ agent_type = "reviewer"
       THEN Append(catalog,
                   [Binding("Revisor", "revisa peticoes", DefaultModel,
                            agent_type, specialty,
                            ReviewerTemplates[specialty])
                      EXCEPT !.id = NextRowId(catalog)])
       ELSE catalog

\* Variant that queries the table a second time for the row it found.
Lookup_Twice(agent_type, specialty) ==
  /\ lookups' =
       lookups \o
         (IF GetAgentModelBySpecialty(catalog, agent_type, specialty)
               = NoBinding
          THEN <<<<agent_type, specialty>>>>
          ELSE <<<<agent_type, specialty>>, <<agent_type, specialty>>>>)
  /\ UNCHANGED catalog

\* The one query a stage makes: get_agent_model_by_specialty runs a SELECT
\* and closes its connection; nothing is written.
Lookup(agent_type, specialty) ==
  /\ lookups' = Append(lookups, <<agent_type, specialty>>)
  /\ UNCHANGED catalog

\* Variant that keeps one results dict on the orchestrator.
NewResults_Shared == UNCHANGED results

\* results = {}: each invocation starts a dict of its own.
NewResults == results' = <<>>

\* The head of generate_petition: the petition type is read, the two start
\* entries are written (the second with json.dumps of the context, outside
\* any handler), and results is created.
Begin ==
  /\ pc = "idle"
  /\ ReadTipo
  /\ IF JsonSerializable(context)
     THEN /\ trace' = Append(trace, Entry("pipeline", 0))
          /\ NewResults
          /\ pc' = "stage"
          /\ stage' = 1
          /\ UNCHANGED <<returned, error>>
     ELSE /\ trace' = Append(trace, Entry("type", 0))
          /\ Raise(TraceFailure(0))
          /\ UNCHANGED <<results, stage>>
  /\ UNCHANGED <<catalog, original_text, current_text, inflight,
                 lookups, handed, issued, saved, script_error, responses,
                 op, adds,
                 earlier>>

GeneratorStage ==
  /\ pc = "stage"
  /\ stage = 1
  /\ Lookup("generator", petition_type)
  /\ LET m == GetGeneratorModel(petition_type)
     IN IF m = NoBinding
        THEN /\ trace' = Append(trace, Entry("no_generator", 1))
             /\ Raise(NoGeneratorForType(petition_type))
             /\ UNCHANGED <<handed, issued, inflight>>
        ELSE AgentGenerate(CreateGeneratorAgent(m), context, 1)
  /\ UNCHANGED <<context, stage, petition_type, results,
                 original_text, current_text, saved, script_error,
                 responses, op, adds,
                 earlier>>

ReviewerStage ==
  /\ pc = "stage"
  /\ stage \in 2..5
  /\ Lookup("reviewer", ReviewerOrder[stage - 1])
  /\ LET m == GetReviewerModel(ReviewerOrder[stage - 1])
     IN IF m # NoBinding
        THEN /\ AgentGenerate(CreateReviewerAgent(m), ReviewContext(stage),
                              stage)
             /\ UNCHANGED <<stage, current_text>>
        ELSE SkipStage(stage)
  /\ UNCHANGED <<context, petition_type, results, original_text,
                 saved, script_error, responses, op, adds,
                 earlier>>

\* generate_text returns: the text of the first choice is logged, returned
\* by the agent and stored by the orchestrator.
CallReturns(content) ==
  /\ pc = "calling"
  /\ inflight' = NoCall
  /\ trace' = Append(trace, Entry("done", stage))
  /\ results' = (StageKey(stage) :> content) @@ results
  /\ IF stage = 1
     THEN original_text' = content /\ UNCHANGED current_text
     ELSE current_text' = content /\ UNCHANGED original_text
  /\ stage' = stage + 1
  /\ pc' = "stage"
  /\ UNCHANGED <<catalog, context, petition_type, lookups, handed, issued,
                 returned, error, saved, script_error, op, adds,
                 earlier>>

\* Variant in which the orchestrator catches the failure of a stage and
\* goes on to the next one.
CallFails_Swallow(cause) ==
  /\ pc = "calling"
  /\ inflight' = NoCall
  /\ trace' = Append(trace, Entry("error", stage))
  /\ pc' = "stage"
  /\ stage' = stage + 1
  /\ UNCHANGED <<catalog, context, petition_type, results, original_text,
                 current_text, lookups, handed, issued, returned, error,
                 saved, script_error, op, adds,
                 earlier>>

\* Variant that sends the request of a stage a second time when the first
\* one failed.
CallFails_Retry(cause) ==
  /\ pc = "calling"
  /\ trace' = Append(trace, Entry("error", stage))
  /\ IF Cardinality({j \in 1..Len(issued) : issued[j].stage = stage}) < 2
     THEN /\ issued' = Append(issued, inflight)
          /\ UNCHANGED <<inflight, pc, error, returned>>
     ELSE /\ inflight' = NoCall
          /\ Raise(GenerationFailure(cause, stage))
          /\ UNCHANGED issued
  /\ UNCHANGED <<catalog, context, stage, petition_type, results,
                 original_text, current_text, lookups, handed, saved,
                 script_error, op, adds, earlier>>

\* generate_text raises: the agent logs the error and re-raises, and the
\* orchestrator has no handler.
CallFails(cause) ==
  /\ pc = "calling"
  /\ inflight' = NoCall
  /\ trace' = Append(trace, Entry("error", stage))
  /\ Raise(GenerationFailure(cause, stage))
  /\ UNCHANGED <<catalog, context, stage, petition_type, results,
                 original_text, current_text, lookups, handed, issued,
                 saved, script_error, op, adds,
                 earlier>>

\* The POST of the call in flight ends: generate_text returns the normalised
\* response or raises, and PetitionAgent.generate goes on accordingly.
CallEnds(http) ==
  /\ responses' = Append(responses, [stage |-> stage, http |-> http])
  /\ LET r == GenerateText(http)
     IN IF r.ok
        THEN CallReturns(ExtractText(r.response))
        ELSE CallFails(r.cause)

Finish ==
  /\ pc = "stage"
  /\ stage = 6
  /\ results' = ("final" :> current_text) @@ results
  /\ trace' = Append(trace, Entry("finished", 6))
  /\ returned' = [some |-> TRUE, value |-> results']
  /\ pc' = "completed"
  /\ UNCHANGED <<catalog, context, stage, petition_type, original_text,
                 current_text, inflight, lookups, handed, issued, error,
                 saved, script_error, responses, op, adds,
                 earlier>>

\* ------------------------------------------------------ test scripts ----

SavedKeys == <<"original", "reviewed", "formatted", "final">>

\* The keys of SavedKeys the script cannot write: no such key in the
\* result, or a value that is no str.
Unwritable(res) ==
  {i \in 1..Len(SavedKeys) :
     \/ SavedKeys[i] \notin DOMAIN res
     \/ res[SavedKeys[i]] = NoneValue}

\* testar_geracao_peticao and testar_recurso_inabilitacao after
\* generate_petition returned: the four files are written in turn, inside
\* a try whose handler logs the exception.
SaveResults ==
  /\ pc = "completed"
  /\ saved = <<>>
  /\ script_error = ""
  /\ LET bad == Unwritable(returned.value)
     IN IF bad = {}
        THEN saved' = SavedKeys /\ script_error' = "none"
        ELSE /\ saved' = SubSeq(SavedKeys, 1, FirstOf(bad) - 1)
             /\ script_error' =
                  IF SavedKeys[FirstOf(bad)] \in DOMAIN returned.value
                  THEN "TypeError" ELSE "KeyError"
  /\ UNCHANGED <<catalog, context, pc, stage, petition_type, results,
                 original_text, current_text, inflight, lookups, handed,
                 issued, trace, returned, error, responses, op, adds,
                 earlier>>

Next ==
  \/ Begin
  \/ GeneratorStage
  \/ ReviewerStage
  \/ \E http \in HttpOutcomes : CallEnds(http)
  \/ Finish
  \/ SaveResults

Spec == Init /\ [][Next]_vars

\* The interpreter runs the invocation to its end, and every request to the
\* service returns or fails.
FairSpec == Spec /\ WF_vars(Next)

\* ------------------------------------------------ catalog operations ----

\* Variant that replaces the row already stored for the type and specialty.
AddAgentModel_Upsert(name, description, model_id, agent_type, specialty, tpl) ==
  /\ Len(adds) < MaxAdds
  /\ LET hits == {i \in 1..Len(catalog) :
                    /\ catalog[i].type = agent_type
                    /\ catalog[i].specialty = specialty}
         id == IF hits = {} THEN NextRowId(catalog)
               ELSE catalog[FirstOf(hits)].id
         row == [Binding(name, description, model_id, agent_type, specialty,
                         tpl) EXCEPT !.id = id]
     IN /\ catalog' = IF hits = {} THEN Append(catalog, row)
                      ELSE [catalog EXCEPT ![FirstOf(hits)] = row]
        /\ adds' = Append(adds, row)
        /\ op' = [name |-> "add", result |-> id]
  /\ UNCHANGED pipelineVars

\* Variant that returns the id without committing the INSERT.
AddAgentModel_Uncommitted(name, description, model_id, agent_type, specialty, tpl) ==
  /\ Len(adds) < MaxAdds
  /\ LET id == NextRowId(catalog)
     IN /\ adds' = Append(adds, [Binding(name, description, model_id,
                                         agent_type, specialty, tpl)
                                   EXCEPT !.id = id])
        /\ op' = [name |-> "add", result |-> id]
  /\ UNCHANGED catalog
  /\ UNCHANGED pipelineVars

\* DatabaseManager.add_agent_model: one INSERT, committed, and the rowid
\* of the new row returned.
AddAgentModel(name, description, model_id, agent_type, specialty, tpl) ==
  /\ Len(adds) < MaxAdds
  /\ LET id == NextRowId(catalog)
         row == [Binding(name, description, model_id, agent_type, specialty,
                         tpl) EXCEPT !.id = id]
     IN /\ catalog' = Append(catalog, row)
        /\ adds' = Append(adds, row)
        /\ op' = [name |-> "add", result |-> id]
  /\ UNCHANGED pipelineVars

\* A call of get_agent_model_by_specialty.
FindModel(agent_type, specialty) ==
  /\ op' = [name |-> "find", agent_type |-> agent_type,
            specialty |-> specialty,
            result |-> GetAgentModelBySpecialty(catalog, agent_type,
                                                specialty)]
  /\ UNCHANGED <<catalog, adds>>
  /\ UNCHANGED pipelineVars

\* A call of get_agent_models.
ListModels(agent_type, specialty) ==
  /\ op' = [name |-> "list", agent_type |-> agent_type,
            specialty |-> specialty,
            result |-> GetAgentModels(catalog, agent_type, specialty)]
  /\ UNCHANGED <<catalog, adds>>
  /\ UNCHANGED pipelineVars

\* GeneratorAgent(client, model_id, specialty) or ReviewerAgent(client,
\* model_id, specialty): __init__ loads the built-in template, and the
\* agent exists only when that returned.
NewAgent(class, specialty) ==
  /\ op' = [name |-> "agent", class |-> class, specialty |-> specialty,
            result |-> LoadSpecialtyTemplate(class, specialty)]
  /\ UNCHANGED <<catalog, adds>>
  /\ UNCHANGED pipelineVars

CatalogInit ==
  /\ catalog = <<>>
  /\ context = FullContext("recurso_administrativo")
  /\ Idle

CatalogNext ==
  \/ \E b \in AddInputs :
       AddAgentModel(b.name, b.description, b.model_id, b.type, b.specialty,
                     b.prompt_template)
  \/ \E t \in FindTypes, s \in FindSpecialties : FindModel(t, s)
  \/ \E t \in TypeFilters, s \in SpecialtyFilters : ListModels(t, s)
  \/ \E c \in AgentClasses, s \in AgentSpecialties : NewAgent(c, s)

\* The catalog and the agent classes used on their own, as the setup
\* script and an administration front end use them.
CatalogSpec == CatalogInit /\ [][CatalogNext]_vars

\* ------------------------------------------- unusual catalogs, contexts ---

\* A grammar reviewer stored with a model and a template of its own.
CustomGramatica ==
  Binding("Revisor proprio", "revisa a ortografia", "custom/model",
          "reviewer", "gramatica", <<Lit("revisor proprio"), Ph("texto")>>)

\* Catalogs with a generator row of empty specialty, or without it, and
\* with reviewer rows that are the default ones, custom ones, or both.
EdgeCatalogs ==
  {Numbered((IF b THEN <<BlankGenerator>> ELSE <<>>)
            \o <<DefaultGenerator(1)>> \o r) :
     b \in BOOLEAN,
     r \in {<<>>, <<DefaultReviewer(1), DefaultReviewer(4)>>,
            <<CustomGramatica>>, <<CustomGramatica, DefaultReviewer(4)>>}}

\* Contexts without tipo, and contexts with a value that is no str.
EdgeContexts ==
  {Without(c, d) :
     c \in {FullContext("recurso_administrativo"),
            [FullContext("recurso_administrativo") EXCEPT !.fatos = ObjValue]},
     d \in {{}, {"tipo"}}}

EdgeInit ==
  /\ catalog \in EdgeCatalogs
  /\ context \in EdgeContexts
  /\ Idle

EdgeSpec == EdgeInit /\ [][Next]_vars

\* ---------------------------------------------- several invocations ----

\* What is kept of an invocation that ended: its outcome, the stages it
\* issued a call for, and what it returned.
Summary ==
  [outcome |-> pc,
   stages |-> [i \in 1..Len(issued) |-> issued[i].stage],
   value |-> returned]

\* The caller invokes generate_petition on the same orchestrator again.
\* The names of the locals are bound anew by the code before they are read;
\* until then they hold what the last invocation left.
CallAgain(ctx) ==
  /\ pc \in {"completed", "fatal"}
  /\ Len(earlier) + 1 < MaxInvocations
  /\ earlier' = Append(earlier, Summary)
  /\ context' = ctx
  /\ pc' = "idle"
  /\ inflight' = NoCall
  /\ lookups' = <<>>
  /\ handed' = <<>>
  /\ issued' = <<>>
  /\ trace' = <<>>
  /\ responses' = <<>>
  /\ returned' = NoResult
  /\ error' = NoError
  /\ saved' = <<>>
  /\ script_error' = ""
  /\ UNCHANGED <<catalog, stage, petition_type, results, original_text,
                 current_text, op, adds>>

RepeatCatalogs ==
  {Numbered(<<DefaultGenerator(1)>> \o r) :
     r \in {<<>>, <<DefaultReviewer(4)>>}}

RepeatContexts ==
  {FullContext("recurso_administrativo"),
   Without(FullContext("recurso_administrativo"), {"cidade"})}

RepeatInit ==
  /\ catalog \in RepeatCatalogs
  /\ context \in RepeatContexts
  /\ Idle

RepeatNext ==
  \/ Next
  \/ \E ctx \in RepeatContexts : CallAgain(ctx)

\* One orchestrator serving one invocation after the other.
RepeatSpec == RepeatInit /\ [][RepeatNext]_vars

\* ------------------------------------------------------------- setup ----

\* The eight rows configurar_agentes_padrao knows, in its order.
DefaultRows ==
  [i \in 1..8 |->
     IF i <= 4 THEN DefaultGenerator(i) ELSE DefaultReviewer(i - 4)]

\* Rows appended to a table, with the ids AUTOINCREMENT gives them.
Inserted(cat, rows) ==
  [i \in 1..Len(rows) |-> [rows[i] EXCEPT !.id = NextRowId(cat) + i - 1]]

\* Variant that inserts the eight rows without looking at the table.
ConfigurarAgentesPadrao_Always(api_key) ==
  /\ Len(catalog) < 2 * Len(DefaultRows)
  /\ LET rows == IF api_key THEN DefaultRows ELSE <<>>
     IN /\ catalog' = catalog \o Inserted(catalog, rows)
        /\ adds' = adds \o Inserted(catalog, rows)
        /\ op' = [name |-> "setup", api_key |-> api_key,
                  inserted |-> Len(rows)]
  /\ UNCHANGED pipelineVars

\* configurar_agentes_padrao: nothing is done when the table has rows of
\* both types or no API key is set; else the four generator rows are
\* inserted when it has no generator row and the four reviewer rows when
\* it has no reviewer row.
ConfigurarAgentesPadrao(api_key) ==
  /\ LET generator_models == GetAgentModels(catalog, "generator", NoneValue)
         reviewer_models == GetAgentModels(catalog, "reviewer", NoneValue)
         rows ==
           IF (generator_models # <<>> /\ reviewer_models # <<>>)
              \/ ~api_key
           THEN <<>>
           ELSE (IF generator_models = <<>>
                 THEN SubSeq(DefaultRows, 1, 4) ELSE <<>>)
                \o (IF reviewer_models = <<>>
                    THEN SubSeq(DefaultRows, 5, 8) ELSE <<>>)
     IN /\ catalog' = catalog \o Inserted(catalog, rows)
        /\ adds' = adds \o Inserted(catalog, rows)
        /\ op' = [name |-> "setup", api_key |-> api_key,
                  inserted |-> Len(rows)]
  /\ UNCHANGED pipelineVars

SetupNext ==
  \/ \E api_key \in BOOLEAN : ConfigurarAgentesPadrao(api_key)
  \/ \E b \in AddInputs :
       AddAgentModel(b.name, b.description, b.model_id, b.type, b.specialty,
                     b.prompt_template)
  \/ \E t \in FindTypes : ListModels(t, NoneValue)

\* The setup script run any number of times on a table that other callers
\* insert into as well.
SetupSpec == CatalogInit /\ [][SetupNext]_vars

\* ------------------------------------ writes during an invocation ----

\* The rows inserted while an invocation runs.
LateInputs == {DefaultReviewer(4), DefaultReviewer(1)}

InterleavedInit ==
  /\ catalog = Numbered(<<DefaultGenerator(1), DefaultReviewer(3)>>)
  /\ context = FullContext("recurso_administrativo")
  /\ Idle

InterleavedNext ==
  \/ Next
  \/ \E b \in LateInputs :
       AddAgentModel(b.name, b.description, b.model_id, b.type, b.specialty,
                     b.prompt_template)

\* An invocation with another process inserting rows between its steps.
InterleavedSpec == InterleavedInit /\ [][InterleavedNext]_vars

\* ------------------------------------------------------------ claims ----

\* The petition type of the caller's context, "" when it has no tipo.
TipoOf(ctx) == IF "tipo" \in DOMAIN ctx THEN ctx["tipo"] ELSE ""

HasRow(agent_type, specialty) ==
  \E i \in 1..Len(catalog) :
    catalog[i].type = agent_type /\ catalog[i].specialty = specialty

\* The reviewer stages in the order the pipeline is to visit them.
FixedReviewers == <<"gramatica", "juridico", "linguagem", "formatacao">>

ReviewerNames == {"gramatica", "juridico", "linguagem", "formatacao"}

PresentReviewers == {s \in ReviewerNames : HasRow("reviewer", s)}

\* C1: when the catalog holds no generator row whose specialty is the
\* context's tipo, the invocation can only end in the fatal outcome with
\* the ValueError for the missing generator; it returns no result, issues
\* no generation call and looks up no reviewer.
C1_NoGeneratorIsFatal ==
  ~HasRow("generator", TipoOf(context)) =>
    /\ issued = <<>>
    /\ inflight = NoCall
    /\ handed = <<>>
    /\ \A i \in 1..Len(lookups) : lookups[i][1] # "reviewer"
    /\ returned = NoResult
    /\ pc \in {"idle", "stage", "fatal"}
    /\ pc = "stage" => stage = 1
    /\ pc = "fatal" =>
         /\ error.kind = "NoGeneratorForType"
         /\ error.exc = "ValueError"
         /\ error.key = TipoOf(context)

C1_Witness ==
  /\ pc = "fatal"
  /\ error.kind = "NoGeneratorForType"
  /\ "tipo" \in DOMAIN context
  /\ context["tipo"] = "inexistente"
  /\ HasRow("generator", "recurso_administrativo")
  /\ PresentReviewers = ReviewerNames

LatestText == IF current_text = Unset THEN original_text ELSE current_text

LastOf(seq) == seq[Len(seq)]

FinalIsLastOutput ==
  pc = "completed" =>
    /\ issued # <<>>
    /\ returned.value["final"] =
         returned.value[
           IF LastOf(issued).stage = 1 THEN "original"
           ELSE LastOf(issued).specialty]
    /\ PresentReviewers = {} =>
         returned.value["final"] = returned.value["original"]
    /\ \A n \in 1..4 :
         (/\ HasRow("reviewer", FixedReviewers[n])
          /\ \A m \in (n + 1)..4 : ~HasRow("reviewer", FixedReviewers[m]))
         => returned.value["final"] = returned.value[FixedReviewers[n]]

\* C3: in a completed invocation final is the output of the last stage that
\* ran (the generator's when no reviewer has a row, else that of the latest
\* present reviewer), and the text carried between the stages changes only
\* in a step in which a stage's generation call returns.
C3_FinalIsLastStage ==
  /\ []FinalIsLastOutput
  /\ [][LatestText' # LatestText =>
          pc = "calling" /\ pc' = "stage" /\ stage' = stage + 1]_vars

C3_Witness ==
  /\ pc = "completed"
  /\ PresentReviewers = {"gramatica", "linguagem"}
  /\ returned.value["final"] = returned.value["linguagem"]
  /\ returned.value["final"] # returned.value["gramatica"]
  /\ returned.value["final"] # returned.value["original"]

\* The result key of each stage, as generate_petition writes them.
FixedKeys == <<"original", "gramatica", "juridico", "linguagem", "formatacao">>

\* C4: the context handed to a reviewer stage has exactly the keys tipo and
\* texto; tipo is the petition type read from the caller's context and
\* texto is the output of the stage that ran last before it; no other key
\* of the caller's context reaches a reviewer.
C4_ReviewerContext ==
  \A i \in 1..Len(handed) :
    handed[i].stage >= 2 =>
      /\ handed[i].class = "ReviewerAgent"
      /\ DOMAIN handed[i].context = {"tipo", "texto"}
      /\ handed[i].context["tipo"] = TipoOf(context)
      /\ i > 1
      /\ handed[i - 1].stage < handed[i].stage
      /\ FixedKeys[handed[i - 1].stage] \in DOMAIN results
      /\ handed[i].context["texto"] = results[FixedKeys[handed[i - 1].stage]]

C4_Witness ==
  /\ Len(handed) = 3
  /\ handed[3].stage = 4
  /\ handed[2].stage = 2
  /\ "fatos" \in DOMAIN context
  /\ "cliente_razao_social" \in DOMAIN context
  /\ handed[3].context["texto"] = results["gramatica"]
  /\ results["gramatica"] # results["original"]

\* Position of a call in the fixed order: 0 the generator, 1..4 the
\* reviewers gramatica, juridico, linguagem, formatacao.
CallRank(c) ==
  IF c.stage = 1 THEN 0
  ELSE CHOOSE n \in 1..4 : FixedReviewers[n] = c.specialty

StagesInOrder ==
  /\ Len(lookups) <= 5
  /\ \A i \in 1..Len(lookups) :
       IF i = 1 THEN lookups[i] = <<"generator", TipoOf(context)>>
       ELSE lookups[i] = <<"reviewer", FixedReviewers[i - 1]>>
  /\ \A i \in 1..Len(issued) :
       /\ issued[i].stage >= 2 =>
            /\ issued[i].specialty \in PresentReviewers
            /\ lookups[CallRank(issued[i]) + 1] =
                 <<"reviewer", issued[i].specialty>>
       /\ \A j \in 1..Len(issued) :
            i < j => CallRank(issued[i]) < CallRank(issued[j])
  /\ inflight # NoCall => pc = "calling" /\ inflight = LastOf(issued)

\* C5: the stages are visited once each in the order generator, gramatica,
\* juridico, linguagem, formatacao, calls are issued in that order for the
\* stages that have a row, a call is issued only when no call is in flight,
\* and nothing is looked up or issued while a call is in flight.
C5_SequentialOrder ==
  /\ []StagesInOrder
  /\ [][issued' # issued =>
          /\ inflight = NoCall
          /\ issued' = Append(issued, inflight')
          /\ Len(lookups') = CallRank(inflight') + 1]_vars
  /\ [][inflight # NoCall => lookups' = lookups /\ issued' = issued]_vars

C5_Witness ==
  /\ pc = "completed"
  /\ Len(issued) = 3
  /\ issued[2].specialty = "juridico"
  /\ issued[3].specialty = "formatacao"
  /\ Len(lookups) = 5

FailedCallIsFatal ==
  \A i \in 1..Len(trace) :
    trace[i].event = "error" =>
      /\ i = Len(trace)
      /\ pc = "fatal"
      /\ error.kind = "GenerationFailure"
      /\ error.at = trace[i].at
      /\ returned = NoResult
      /\ inflight = NoCall
      /\ Len(lookups) = trace[i].at
      /\ LastOf(issued).stage = trace[i].at
      /\ saved = <<>>

\* C6: when the generation call of a stage fails the invocation is fatal
\* with that failure, no later stage is looked up or called, and no result
\* (not even the partial one) is returned; the fatal state is final.
C6_FailureAborts ==
  /\ []FailedCallIsFatal
  /\ [][pc = "fatal" =>
          /\ pc' = "fatal"
          /\ lookups' = lookups
          /\ issued' = issued
          /\ returned' = NoResult
          /\ error' = error]_vars

C6_Witness ==
  /\ pc = "fatal"
  /\ error.kind = "GenerationFailure"
  /\ error.at = 3
  /\ DOMAIN results = {"original", "gramatica"}
  /\ HasRow("reviewer", "linguagem")
  /\ HasRow("reviewer", "formatacao")

RenderFails(h) == ~(Placeholders(h.template) \subseteq DOMAIN h.context)

FatalHasCause ==
  /\ pc = "fatal" =>
       /\ returned = NoResult
       /\ \/ /\ error.kind = "NoGeneratorForType"
             /\ ~HasRow("generator", TipoOf(context))
          \/ /\ error.kind = "GenerationFailure"
             /\ trace # <<>>
             /\ LastOf(trace).event = "error"
          \/ /\ error.kind = "IncompleteContext"
             /\ handed # <<>>
             /\ RenderFails(LastOf(handed))
  /\ pc = "completed" =>
       /\ error = NoError
       /\ returned # NoResult
       /\ HasRow("generator", TipoOf(context))
       /\ \A i \in 1..Len(handed) : ~RenderFails(handed[i])
       /\ \A i \in 1..Len(trace) : trace[i].event # "error"

\* C7 as stated: with a generator row present and no generation call
\* failing, the invocation does not end fatal.
C7_Original ==
  pc = "fatal" =>
    \/ ~HasRow("generator", TipoOf(context))
    \/ error.kind = "GenerationFailure"

\* C7, amended: every invocation eventually reaches completed or fatal, and
\* never both; it ends fatal only for a missing generator row, a template
\* that the stage's context cannot render, or a failed generation call, so
\* a missing reviewer row never leads to fatal.
C7_Terminates ==
  /\ <>(pc \in {"completed", "fatal"})
  /\ []FatalHasCause
  /\ [][(pc \in {"completed", "fatal"}) => (pc' = pc)]_vars

C7_Witness ==
  /\ pc = "completed"
  /\ PresentReviewers = {}
  /\ Len(lookups) = 5
  /\ Len(issued) = 1

AllEightDefaults ==
  /\ Len(catalog) = 8
  /\ \A i \in 1..4 : HasRow("generator", GeneratorSpecialties[i])
  /\ PresentReviewers = ReviewerNames

SixKeys ==
  {"original", "gramatica", "juridico", "linguagem", "formatacao", "final"}

\* C8: with the eight default rows and a complete recurso_administrativo
\* context, the returned result has exactly the six keys, every value is a
\* non-empty string, and final equals the value of formatacao.
C8_EndToEnd ==
  (/\ pc = "completed"
   /\ AllEightDefaults
   /\ context = FullContext("recurso_administrativo"))
  => /\ DOMAIN returned.value = SixKeys
     /\ \A k \in SixKeys : IsNonEmptyStr(returned.value[k])
     /\ returned.value["final"] = returned.value["formatacao"]

\* C9: a result returned for a supported petition type has an entry under
\* each of the keys original, reviewed, formatted and final.
C9_ScriptKeys ==
  (pc = "completed" /\ HasRow("generator", TipoOf(context)))
  => {"original", "reviewed", "formatted", "final"}
       \subseteq DOMAIN returned.value

\* C10: when the context handed to an agent lacks a placeholder of its
\* template, generate raises the ValueError naming a missing key, no
\* prompt is rendered, no generation call is issued for that stage, and
\* the invocation ends there: fatal, nothing returned, no later lookup.
C10_IncompleteContextAborts ==
  \A i \in 1..Len(handed) :
    RenderFails(handed[i]) =>
      /\ i = Len(handed)
      /\ pc = "fatal"
      /\ error.kind = "IncompleteContext"
      /\ error.exc = "ValueError"
      /\ error.at = handed[i].stage
      /\ error.key \in Placeholders(handed[i].template)
      /\ error.key \notin DOMAIN handed[i].context
      /\ \A j \in 1..Len(issued) : issued[j].stage # handed[i].stage
      /\ \A j \in 1..Len(trace) :
           trace[j].at = handed[i].stage => trace[j].event = "start"
      /\ inflight = NoCall
      /\ returned = NoResult
      /\ Len(lookups) = handed[i].stage

C10_Witness ==
  /\ pc = "fatal"
  /\ error.kind = "IncompleteContext"
  /\ error.at = 3
  /\ error.key = "fatos"
  /\ Len(issued) = 2
  /\ HasRow("reviewer", "linguagem")

\* The generate_text calls issued for the stage of a handed context.
CallsFor(h) == {j \in 1..Len(issued) : issued[j].stage = h.stage}

\* C11: the template of an agent is rendered (and the call of its stage
\* issued) exactly when every placeholder of the template is a key of the
\* context handed to it; every piece of the prompt is the literal or the
\* value of the placeholder's key, so the prompt is the one rendered from
\* the context cut down to the placeholders: keys the template does not
\* name neither make rendering fail nor change the prompt.
C11_RenderIffKeys ==
  \A i \in 1..Len(handed) :
    LET h == handed[i]
        used == Placeholders(h.template)
    IN /\ (CallsFor(h) # {}) <=> (used \subseteq DOMAIN h.context)
       /\ CallsFor(h) = {} =>
            pc = "fatal" /\ error.kind = "IncompleteContext"
       /\ \A j \in CallsFor(h) :
            /\ Len(issued[j].prompt) = Len(h.template)
            /\ \A n \in 1..Len(h.template) :
                 issued[j].prompt[n] =
                   IF h.template[n].ph
                   THEN Str(h.context[h.template[n].s])
                   ELSE h.template[n].s
            /\ issued[j].prompt =
                 FormatPrompt(h.template,
                              [k \in used |-> h.context[k]]).prompt

C11_Witness ==
  /\ pc = "calling"
  /\ Len(handed) = 1
  /\ Len(issued) = 1
  /\ {"tipo", "cliente_razao_social"} \subseteq DOMAIN handed[1].context
  /\ "cliente_razao_social" \notin Placeholders(handed[1].template)
  /\ Placeholders(handed[1].template) \subseteq DOMAIN handed[1].context

\* C12: constructing an agent without a template succeeds exactly for the
\* class GeneratorAgent with one of the four petition types and for the
\* class ReviewerAgent with one of the four review types; for every other
\* pair it raises the ValueError for an unsupported specialty.
C12_ClosedSet ==
  op.name = "agent" =>
    (op.result.ok <=>
       \/ /\ op.class = "GeneratorAgent"
          /\ op.specialty \in {GeneratorSpecialties[i] : i \in 1..4}
       \/ /\ op.class = "ReviewerAgent"
          /\ op.specialty \in ReviewerNames)

\* C13: when the caller's context has no tipo key, no generation call is
\* ever issued and the invocation does not get past the generator lookup,
\* whatever the catalog holds.
C13_NoTipoIsFatal ==
  "tipo" \notin DOMAIN context =>
    /\ issued = <<>>
    /\ handed = <<>>
    /\ pc \in {"idle", "stage", "fatal"}
    /\ pc = "stage" => stage = 1

\* The positions of the rows of the catalog with this type and specialty.
RowsFor(agent_type, specialty) ==
  {i \in 1..Len(catalog) :
     catalog[i].type = agent_type /\ catalog[i].specialty = specialty}

FindIsFirstMatch ==
  op.name = "find" =>
    LET hits == RowsFor(op.agent_type, op.specialty)
    IN /\ (op.result = NoBinding) <=> (hits = {})
       /\ hits # {} =>
            /\ op.result.type = op.agent_type
            /\ op.result.specialty = op.specialty
            /\ \E i \in hits :
                 /\ op.result = catalog[i]
                 /\ \A j \in hits : i <= j

\* C14: get_agent_model_by_specialty returns None exactly when no row has
\* both the requested type and the requested specialty, and otherwise the
\* first row that has both; a missing row is answered with None, not with
\* an exception, and the call leaves the table as it was.
C14_FindBinding ==
  /\ []FindIsFirstMatch
  /\ [][(op' # op /\ op'.name = "find") =>
          (catalog' = catalog /\ adds' = adds)]_vars

C14_Witness ==
  /\ op.name = "find"
  /\ op.agent_type = "generator"
  /\ op.specialty = "juridico"
  /\ op.result = NoBinding
  /\ \E i \in 1..Len(catalog) : catalog[i].type = "generator"
  /\ \E i \in 1..Len(catalog) : catalog[i].specialty = "juridico"

\* The ids of the rows of a table.
IdsOf(cat) == {cat[i].id : i \in 1..Len(cat)}

AddAppendsOneRow ==
  adds' # adds =>
    /\ Len(catalog') = Len(catalog) + 1
    /\ \A i \in 1..Len(catalog) : catalog'[i] = catalog[i]
    /\ catalog'[Len(catalog')].id \notin IdsOf(catalog)
    /\ op'.name = "add"
    /\ op'.result = catalog'[Len(catalog')].id
    /\ catalog'[Len(catalog')] = adds'[Len(adds')]

FindKeepsFirstInserted ==
  op.name = "find" /\ op.result # NoBinding =>
    \E i \in 1..Len(adds) :
      /\ adds[i] = op.result
      /\ \A j \in 1..Len(adds) :
           (adds[j].type = op.agent_type /\ adds[j].specialty = op.specialty)
             => i <= j

\* C15: every add_agent_model call, also one for a type and specialty that
\* already have a row, appends exactly one row under an id no row had and
\* leaves every row already stored as it was; after any number of such
\* calls the lookup of a type and specialty still returns the row that
\* was inserted first for them.
C15_AddNeverReplaces ==
  /\ [][AddAppendsOneRow]_vars
  /\ []FindKeepsFirstInserted

C15_Witness ==
  /\ op.name = "find"
  /\ op.agent_type = "reviewer"
  /\ op.specialty = "juridico"
  /\ Len(catalog) = 3
  /\ RowsFor("reviewer", "juridico") = {1, 3}
  /\ op.result = catalog[1]
  /\ catalog[3].prompt_template # catalog[1].prompt_template

\* C16: get_agent_models returns exactly the rows whose type equals the
\* type filter when one is supplied and whose specialty equals the
\* specialty filter when one is supplied; a filter that is supplied is
\* applied whatever its value.
C16_ExactFilters ==
  op.name = "list" =>
    op.result =
      SelectSeq(catalog, LAMBDA r :
        /\ op.agent_type # NoneValue => r.type = op.agent_type
        /\ op.specialty # NoneValue => r.specialty = op.specialty)

\* A filter argument that does not exclude the row.
Admits(filter, value) == filter = NoneValue \/ filter = value

\* C17: once add_agent_model has returned an id, every later lookup of the
\* row's type and specialty finds a row, and every later listing whose
\* filters do not exclude the row holds a row with that id whose name,
\* description, model id, type, specialty and template are the arguments
\* of the call.
C17_WritesVisible ==
  \A i \in 1..Len(adds) :
    /\ (/\ op.name = "find"
        /\ op.agent_type = adds[i].type
        /\ op.specialty = adds[i].specialty) => op.result # NoBinding
    /\ (/\ op.name = "list"
        /\ Admits(op.agent_type, adds[i].type)
        /\ Admits(op.specialty, adds[i].specialty))
       => \E j \in 1..Len(op.result) :
            /\ op.result[j].id = adds[i].id
            /\ op.result[j] = adds[i]
    /\ \A j \in 1..Len(adds) : i # j => adds[i].id # adds[j].id

C17_Witness ==
  /\ op.name = "list"
  /\ op.agent_type = "reviewer"
  /\ op.specialty = "juridico"
  /\ Len(adds) = 3
  /\ adds[3] = [CustomJuridico EXCEPT !.id = 3]
  /\ Len(op.result) = 2
  /\ op.result[2] = adds[3]

\* The specialty of a stage: the petition type for the generator stage,
\* the review type for a reviewer stage.
StageSpecialty(k) == IF k = 1 THEN TipoOf(context) ELSE FixedReviewers[k - 1]

\* C18: the exception a fatal invocation hands its caller is the exception
\* first raised, not another one raised in its place, and its message
\* names the specialty of the stage that failed.
C18_ErrorNamesStage ==
  pc = "fatal" =>
    /\ error.exc = error.origin
    /\ \E n \in 1..Len(error.text) : error.text[n] = StageSpecialty(error.at)

\* The POST delivered a first candidate whose content is a text.
Usable(http) == http.kind = "ok" /\ http.content # NoneValue

\* C19: when a generation call ends without a usable first candidate text
\* (transport error, status other than 200, body without choices or with an
\* empty list of them, first candidate without a text), the agent raises:
\* the invocation is fatal with that failure, the stage stores no output
\* and no later call is made.
C19_UnusableFails ==
  \A i \in 1..Len(responses) :
    ~Usable(responses[i].http) =>
      /\ i = Len(responses)
      /\ pc = "fatal"
      /\ error.kind = "GenerationFailure"
      /\ error.at = responses[i].stage
      /\ FixedKeys[responses[i].stage] \notin DOMAIN results

\* C20: writing the trace never decides the outcome: an invocation ends
\* fatal only for a missing generator row, a template the context cannot
\* render or a failed generation call, never for an error raised while a
\* trace entry is built.
C20_TraceNeverAborts ==
  pc = "fatal" =>
    \/ /\ error.kind = "NoGeneratorForType"
       /\ ~HasRow("generator", TipoOf(context))
    \/ /\ error.kind = "GenerationFailure"
       /\ responses # <<>>
       /\ LastOf(responses).http.kind # "ok"
    \/ /\ error.kind = "IncompleteContext"
       /\ handed # <<>>
       /\ RenderFails(LastOf(handed))

\* C21: the built-in template of a generator refers to case fields only,
\* and the built-in template of a reviewer refers to exactly tipo and
\* texto.
C21_BuiltinPlaceholders ==
  (op.name = "agent" /\ op.result.ok) =>
    /\ op.class = "GeneratorAgent" =>
         Placeholders(op.result.template)
           \subseteq {CaseFields[i] : i \in 1..Len(CaseFields)}
    /\ op.class = "ReviewerAgent" =>
         Placeholders(op.result.template) = {"tipo", "texto"}

CallsCounted ==
  /\ \A i \in 1..Len(issued) : \A j \in 1..Len(issued) :
       i # j => issued[i].stage # issued[j].stage
  /\ Len(responses) <= Len(issued)
  /\ Len(issued) <= Len(responses) + 1
  /\ pc = "completed" =>
       /\ Len(issued) = 1 + Cardinality(PresentReviewers)
       /\ Len(responses) = Len(issued)
  /\ (pc = "fatal" /\ error.kind = "GenerationFailure") =>
       /\ Len(responses) = Len(issued)
       /\ LastOf(issued).stage = error.at
       /\ LastOf(responses).stage = error.at
       /\ LastOf(responses).http.kind # "ok"
       /\ \A i \in 1..(Len(responses) - 1) : responses[i].http.kind = "ok"

\* C22: no stage issues more than one generation call; a completed
\* invocation has issued one call for the generator and one for each
\* reviewer that has a row; when a call fails it is the last call issued,
\* and nothing is issued once the invocation is fatal.
C22_OneCallPerStage ==
  /\ []CallsCounted
  /\ [][(pc = "fatal") => (issued' = issued /\ responses' = responses)]_vars

C22_Witness ==
  /\ pc = "fatal"
  /\ error.kind = "GenerationFailure"
  /\ error.at = 4
  /\ Len(issued) = 3
  /\ HasRow("reviewer", "formatacao")

\* The row the lookup of a stage returns: the first one of the catalog with
\* the stage's type and specialty.
RowOfStage(k) ==
  catalog[FirstOf(RowsFor(IF k = 1 THEN "generator" ELSE "reviewer",
                          StageSpecialty(k)))]

\* C23: every generation call carries the model id of the row found for
\* its stage, and its prompt is rendered from the template stored in that
\* row, also when the agent class has a built-in template for the
\* specialty and when the catalog holds other rows.
C23_BoundModelAndTemplate ==
  \A j \in 1..Len(issued) :
    LET k == issued[j].stage
    IN /\ RowsFor(IF k = 1 THEN "generator" ELSE "reviewer",
                  StageSpecialty(k)) # {}
       /\ issued[j].model = RowOfStage(k).model_id
       /\ issued[j].specialty = RowOfStage(k).specialty
       /\ Len(issued[j].prompt) = Len(RowOfStage(k).prompt_template)
       /\ \E i \in 1..Len(handed) :
            /\ handed[i].stage = k
            /\ handed[i].template = RowOfStage(k).prompt_template
            /\ \A n \in 1..Len(issued[j].prompt) :
                 issued[j].prompt[n] =
                   IF RowOfStage(k).prompt_template[n].ph
                   THEN Str(handed[i].context[
                              RowOfStage(k).prompt_template[n].s])
                   ELSE RowOfStage(k).prompt_template[n].s

C23_Witness ==
  /\ Len(issued) = 2
  /\ issued[2].stage = 2
  /\ issued[2].model = "custom/model"
  /\ issued[2].prompt[1] = "revisor proprio"
  /\ Cardinality(RowsFor("reviewer", "gramatica")) = 2

\* C24: no invocation ends with the ValueError for an unsupported
\* specialty; the agent of a row whose specialty the class has no built-in
\* template for is built with the row's template.
C24_NoResolutionMidPipeline ==
  /\ error.kind # "UnsupportedSpecialty"
  /\ \A i \in 1..Len(handed) :
       (/\ handed[i].stage = 1
        /\ TipoOf(context) \notin DOMAIN GeneratorTemplates)
       => handed[i].template = RowOfStage(1).prompt_template

C24_Witness ==
  /\ pc = "calling"
  /\ Len(handed) = 1
  /\ "tipo" \notin DOMAIN context
  /\ handed[1].template = BlankGenerator.prompt_template
  /\ issued[1].specialty = ""

\* C25: no step of an invocation changes the catalog: the rows and each of
\* their fields are, at every outcome, those the invocation started with.
C25_CatalogReadOnly == [][catalog' = catalog]_vars

C25_Witness ==
  /\ pc = "completed"
  /\ Len(lookups) = 5
  /\ Len(catalog) = 2
  /\ PresentReviewers = {"juridico"}

HandedContexts ==
  \A i \in 1..Len(handed) :
    IF handed[i].stage = 1
    THEN handed[i].context = context
    ELSE DOMAIN handed[i].context = {"tipo", "texto"}

\* C26: no step of an invocation changes the caller's context; the
\* generator is handed that context as it is, a reviewer a context with
\* the two keys tipo and texto.
C26_ContextUntouched ==
  /\ []HandedContexts
  /\ [][context' = context]_vars

C26_Witness ==
  /\ pc = "completed"
  /\ Len(handed) = 2
  /\ handed[1].context = context
  /\ {"tipo", "cidade", "cliente_razao_social"} \subseteq DOMAIN context

\* C27: every call of generate that has ended wrote its start entry and,
\* after it, an entry with the output or an entry with the error.
C27_ClosingEntry ==
  \A i \in 1..Len(handed) :
    (pc # "calling" \/ i < Len(handed)) =>
      \E a \in 1..Len(trace) : \E b \in 1..Len(trace) :
        /\ a < b
        /\ trace[a] = Entry("start", handed[i].stage)
        /\ trace[b].at = handed[i].stage
        /\ trace[b].event \in {"done", "error"}

\* Every entry of the result under construction is the content of a
\* response this invocation received for the stage of that key.
OwnResult ==
  pc \in {"stage", "calling", "completed"} =>
    \A k \in DOMAIN results \ {"final"} :
      \E i \in 1..Len(responses) :
        /\ responses[i].http.kind = "ok"
        /\ FixedKeys[responses[i].stage] = k
        /\ results[k] = responses[i].http.content

SameStructure ==
  \A n \in 1..Len(earlier) :
    (earlier[n].outcome = "completed" /\ pc = "completed") =>
      /\ DOMAIN earlier[n].value.value = DOMAIN returned.value
      /\ earlier[n].stages = [i \in 1..Len(issued) |-> issued[i].stage]

\* C28: the result an invocation builds and returns holds only outputs of
\* its own generation calls, none left by an earlier invocation on the
\* same orchestrator; two completed invocations on the same catalog issue
\* calls for the same stages and return the same keys, whatever the texts.
C28_Independent ==
  /\ OwnResult
  /\ SameStructure
  /\ pc = "completed" => returned.value = results

C28_Witness ==
  /\ pc = "completed"
  /\ Len(earlier) = 1
  /\ earlier[1].outcome = "completed"
  /\ DOMAIN returned.value = {"original", "gramatica", "final"}
  /\ earlier[1].value.value["original"] # returned.value["original"]
  /\ earlier[1].value.value["final"] # returned.value["final"]

\* No two rows of a table have the same type and specialty.
UniquePairs(cat) ==
  \A i \in 1..Len(cat) : \A j \in 1..Len(cat) :
    (cat[i].type = cat[j].type /\ cat[i].specialty = cat[j].specialty)
      => i = j

TypesOf(cat) == {cat[i].type : i \in 1..Len(cat)}

SetupStep ==
  (op'.name = "setup" /\ (op' # op \/ catalog' # catalog)) =>
    /\ Len(catalog') = Len(catalog) + op'.inserted
    /\ \A i \in 1..Len(catalog) : catalog'[i] = catalog[i]
    /\ \A i \in (Len(catalog) + 1)..Len(catalog') :
         /\ catalog'[i].type \notin TypesOf(catalog)
         /\ catalog'[i].id \notin IdsOf(catalog)
    /\ UniquePairs(catalog) => UniquePairs(catalog')
    /\ {"generator", "reviewer"} \subseteq TypesOf(catalog) =>
         catalog' = catalog
    /\ (catalog = <<>> /\ op'.api_key) =>
         /\ Len(catalog') = 8
         /\ UniquePairs(catalog')
         /\ \A n \in 1..4 :
              /\ \E i \in 1..8 :
                   /\ catalog'[i].type = "generator"
                   /\ catalog'[i].specialty = GeneratorSpecialties[n]
              /\ \E i \in 1..8 :
                   /\ catalog'[i].type = "reviewer"
                   /\ catalog'[i].specialty = FixedReviewers[n]
    /\ op'.api_key => {"generator", "reviewer"} \subseteq TypesOf(catalog')

\* C29: a run of configurar_agentes_padrao inserts rows of a type only
\* when the table has none of that type and keeps the rows it finds, so a
\* table without two rows of the same type and specialty stays so; on an
\* empty table with the API key set it leaves exactly one row for each of
\* the eight default pairs, and a run on a table with rows of both types
\* inserts nothing.
C29_SetupKeepsPairsUnique == [][SetupStep]_vars

C29_Witness ==
  /\ op.name = "setup"
  /\ op.api_key
  /\ op.inserted = 0
  /\ Len(catalog) = 8
  /\ adds = catalog
  /\ UniquePairs(catalog)

LookupsOnce ==
  /\ Len(lookups) <= 5
  /\ \A i \in 1..Len(lookups) :
       lookups[i] = <<IF i = 1 THEN "generator" ELSE "reviewer",
                      StageSpecialty(i)>>
  /\ pc = "completed" =>
       /\ Len(lookups) = 5
       /\ DOMAIN returned.value =
            {"final"} \cup {FixedKeys[handed[i].stage] : i \in 1..Len(handed)}
       /\ returned.value["final"] =
            returned.value[FixedKeys[LastOf(handed).stage]]
       /\ \A i \in 1..Len(handed) :
            returned.value[FixedKeys[handed[i].stage]] =
              responses[i].http.content

LookupDecides ==
  lookups' # lookups =>
    /\ Len(lookups') = Len(lookups) + 1
    /\ (handed' # handed) <=>
         (RowsFor(lookups'[Len(lookups')][1], lookups'[Len(lookups')][2])
            # {})
    /\ handed' # handed => LastOf(handed').stage = Len(lookups')

\* C30: an invocation looks each stage's row up once, in stage order; a
\* stage runs exactly when the table holds a row for it at the step of
\* that lookup, whatever is inserted before or after; a completed result
\* has the keys of the stages that ran and final is the output of the
\* last of them.
C30_SingleLookup ==
  /\ []LookupsOnce
  /\ [][LookupDecides]_vars

C30_Witness ==
  /\ pc = "completed"
  /\ RowsFor("reviewer", "gramatica") # {}
  /\ RowsFor("reviewer", "juridico") = {3}
  /\ "gramatica" \notin DOMAIN returned.value
  /\ "juridico" \in DOMAIN returned.value
  /\ returned.value["final"] = returned.value["linguagem"]

====
